---- MODULE Spec2Model ----
(***************************************************************************)
(* A model of server.js: the request handlers of the dashboard backend and *)
(* the four SQLite tables they read and write.                             *)
(*                                                                         *)
(* Every handler is an async function whose awaits are statements sent to  *)
(* the one shared connection `db`.  A handler step below is the code from  *)
(* one await to the next, so the statements of different requests          *)
(* interleave exactly where the code awaits.                               *)
(*                                                                         *)
(* Representation.                                                         *)
(*   - JS strings and SQL TEXT values are TLA+ strings.                    *)
(*   - A request body is a function from the keys it carries to their      *)
(*     values: a key outside its DOMAIN is `undefined`.                    *)
(*   - A number (JS number, SQL REAL/INTEGER) is <<h>>, where h counts     *)
(*     units of 1/Scale; JS null and SQL NULL are <<>>.                    *)
(*   - The result of db.get is the set of rows found (empty: undefined).   *)
(*   - The column created_at is never read by a handler and is left out.   *)
(***************************************************************************)
EXTENDS Integers, Sequences, FiniteSets, TLC

VARIABLES
    transactions,   \* table transactions: a set of rows
    seq,            \* table sqlite_sequence: per table, the largest rowid handed out
    assigned,       \* history: every id an INSERT has handed out
    inventory,      \* table inventory: a set of rows
    categories,     \* table categories: a set of rows
    category_sales, \* table category_sales: a set of rows
    post,           \* POST /api/transactions in flight
    put,            \* PUT /api/transactions/:id in flight
    invput,         \* PUT /api/inventory/:id in flight
    stats,          \* GET /api/stats in flight
    series,         \* GET /api/revenue-series in flight
    clock,          \* the host's calendar month and time zone
    out             \* the response sent by the last step (op "none": none)

vars == <<transactions, seq, assigned, inventory, categories, category_sales,
          post, put, invput, stats, series, clock, out>>

(***************************************************************************)
(* Bounds of the model.                                                    *)
(***************************************************************************)
MaxId == 2      \* INSERTs into transactions per behaviour
MaxInFlight == 2 \* requests the server is handling at one moment
MaxDuring == 2  \* different store totals while one GET /api/stats is in flight
Scale == 2      \* amounts are whole numbers of 1/Scale

(***************************************************************************)
(* Values.                                                                 *)
(***************************************************************************)
Null == <<>>
Num(h) == <<h>>
IsNull(v) == v = Null
Val(v) == v[1]

Min(a, b) == IF a <= b THEN a ELSE b
Max(a, b) == IF a >= b THEN a ELSE b

\* SQLite's BINARY collation on the characters the model's strings use.
Collation == "-0123456789ABCDEFGHIJKLMNOPQRSTUVWXYZabcdefghijklmnopqrstuvwxyz"

CharRank(c) == CHOOSE i \in 1..Len(Collation) : SubSeq(Collation, i, i) = c

RECURSIVE StrLess(_, _)
StrLess(a, b) ==
    IF Len(b) = 0 THEN FALSE
    ELSE IF Len(a) = 0 THEN TRUE
    ELSE LET ca == CharRank(SubSeq(a, 1, 1))
             cb == CharRank(SubSeq(b, 1, 1))
         IN  IF ca # cb THEN ca < cb
             ELSE StrLess(SubSeq(a, 2, Len(a)), SubSeq(b, 2, Len(b)))

StrGeq(a, b) == ~StrLess(a, b)

\* SQL substr(s, 1, n)
Substr1(s, n) == SubSeq(s, 1, Min(Len(s), n))

\* SQL: s LIKE '%q%' (the model's patterns hold no wildcard and no letter)
Like(s, q) ==
    \E i \in 1..(Len(s) - Len(q) + 1) : SubSeq(s, i, i + Len(q) - 1) = q

(***************************************************************************)
(* The store.                                                              *)
(***************************************************************************)
Ids(rows) == {r.id : r \in rows}

ById(rows, id) == {r \in rows : r.id = id}

MaxRowid(rows) ==
    IF rows = {} THEN 0 ELSE CHOOSE m \in Ids(rows) : \A i \in Ids(rows) : i <= m

\* INTEGER PRIMARY KEY without AUTOINCREMENT: one more than the largest rowid
\* in the table.
NextRowidNoAutoincrement(rows, sq) == MaxRowid(rows) + 1

\* INTEGER PRIMARY KEY AUTOINCREMENT: one more than the largest rowid the
\* table has ever held.
NextRowid(rows, sq) == Max(sq, MaxRowid(rows)) + 1

\* SQL SUM over a column of a set of rows: NULL values are skipped, and the
\* sum of no value is NULL.
RECURSIVE SumCol(_, _)
SumCol(rows, col) ==
    IF rows = {} THEN Null
    ELSE LET r == CHOOSE x \in rows : TRUE
             rest == SumCol(rows \ {r}, col)
         IN  IF IsNull(r[col]) THEN rest
             ELSE IF IsNull(rest) THEN r[col]
             ELSE Num(Val(r[col]) + Val(rest))

IfNull(v, d) == IF IsNull(v) THEN d ELSE v

(***************************************************************************)
(* Request bodies of the transaction endpoints.                            *)
(***************************************************************************)
Required == {"date", "reference", "type", "account"}

Has(b, k) == k \in DOMAIN b

\* !x for a string field: undefined and "" are falsy
Falsy(b, k) == IF Has(b, k) THEN b[k] = "" ELSE TRUE

\* the presence check with `account` forgotten
MissingRequiredNoAccount(b) ==
    Falsy(b, "date") \/ Falsy(b, "reference") \/ Falsy(b, "type")

\* if (!date || !reference || !type || !account)
MissingRequired(b) ==
    Falsy(b, "date") \/ Falsy(b, "reference") \/ Falsy(b, "type")
        \/ Falsy(b, "account")

\* const { ..., debit = 0, credit = 0 } = req.body
Default0(b, k) == IF Has(b, k) THEN b[k] ELSE Num(0)

\* A parameter bound to `undefined` is bound as NULL, which the NOT NULL
\* columns refuse.
ViolatesNotNull(b) == \E k \in Required : ~Has(b, k)

RowOf(id, b) ==
    [id |-> id, date |-> b.date, reference |-> b.reference, type |-> b.type,
     account |-> b.account, debit |-> Default0(b, "debit"),
     credit |-> Default0(b, "credit")]

Drop(b, k) == [x \in DOMAIN b \ {k} |-> b[x]]

NoResponse == [op |-> "none"]

ServerError(op, b) ==
    [op |-> op, status |-> 500, success |-> FALSE, req |-> b]

BadRequest(op, b) ==
    [op |-> op, status |-> 400, success |-> FALSE, req |-> b]

Idle == [pc |-> "idle"]

\* The requests between their first and their last statement.
InFlight ==
    Cardinality({h \in {"post", "put", "invput", "stats", "series"} :
        CASE h = "post"   -> post.pc # "idle"
          [] h = "put"    -> put.pc # "idle"
          [] h = "invput" -> invput.pc # "idle"
          [] h = "stats"  -> stats.pc # "idle"
          [] h = "series" -> series.pc # "idle"})

Accepting == InFlight < MaxInFlight

\* parseInt(s, 10) of an optionally signed decimal numeral
Digit(c) == CharRank(c) - 2

RECURSIVE ParseDigits(_, _)
ParseDigits(s, acc) ==
    IF Len(s) = 0 THEN acc
    ELSE ParseDigits(SubSeq(s, 2, Len(s)), acc * 10 + Digit(SubSeq(s, 1, 1)))

ParseInt(s) ==
    IF SubSeq(s, 1, 1) = "-" THEN 0 - ParseDigits(SubSeq(s, 2, Len(s)), 0)
    ELSE ParseDigits(s, 0)

\* req.query.k || dflt
QueryOr(query, k, dflt) ==
    IF Has(query, k) /\ query[k] # "" THEN query[k] ELSE dflt

(***************************************************************************)
(* GET /api/stats: the three sums, and what the handler makes of them.     *)
(***************************************************************************)
OfType(rows, t) == {r \in rows : r.type = t}

\* SELECT IFNULL(SUM(credit),0) ... : the wrong column
SumDebitOfTypeCredit(rows, t) == IfNull(SumCol(OfType(rows, t), "credit"), Num(0))

\* SELECT IFNULL(SUM(debit),0) FROM transactions WHERE type = t
SumDebitOfType(rows, t) == IfNull(SumCol(OfType(rows, t), "debit"), Num(0))

\* SELECT IFNULL(SUM(stock),0) FROM inventory
SumStock(inv) == IfNull(SumCol(inv, "stock"), Num(0))

\* x || 0 for a number or null
Or0(v) == IF IsNull(v) \/ Val(v) = 0 THEN 0 ELSE Val(v)

\* The totals the ledger and the inventory hold in one store state: plain
\* sums in which a NULL amount counts as nothing.
Amount(v) == IF v = Null THEN 0 ELSE v[1]

RECURSIVE Total(_, _)
Total(rows, col) ==
    IF rows = {} THEN 0
    ELSE LET r == CHOOSE x \in rows : TRUE
         IN  Amount(r[col]) + Total(rows \ {r}, col)

Totals(rows, inv) ==
    [revenue  |-> Total({r \in rows : r.type = "invoice"}, "debit"),
     expenses |-> Total({r \in rows : r.type = "expense"}, "debit"),
     stock    |-> Total(inv, "stock")]

\* History for GET /api/stats: the totals of every store state since the
\* request arrived.  Each statement that writes the store extends it.
Observe(rows, inv) ==
    IF stats.pc = "idle" THEN stats
    ELSE [stats EXCEPT !.during = @ \cup {Totals(rows, inv)}]

\* The bound on that history: a write that would exceed it waits.
Fits(rows, inv) ==
    IF stats.pc = "idle" THEN TRUE
    ELSE Cardinality(stats.during \cup {Totals(rows, inv)}) <= MaxDuring

(***************************************************************************)
(* POST /api/transactions                                                  *)
(***************************************************************************)
\* lines 205-208: the presence check fails, nothing is sent to the store
PostReject(B) ==
    \E b \in B :
        /\ post.pc = "idle"
        /\ MissingRequired(b)
        /\ out' = BadRequest("post", b)
        /\ UNCHANGED <<transactions, seq, assigned, inventory, categories,
                       category_sales, post, put, invput, stats, series, clock>>

\* lines 205-210: the presence check passes and the INSERT runs
PostInsert(B) ==
    \E b \in B :
        /\ post.pc = "idle"
        /\ Accepting
        /\ ~MissingRequired(b)
        /\ seq.transactions < MaxId
        /\ IF ViolatesNotNull(b)
           THEN /\ out' = ServerError("post", b)
                /\ UNCHANGED <<transactions, seq, assigned, post, stats>>
           ELSE LET id == NextRowid(transactions, seq.transactions)
                IN  /\ transactions' = transactions \cup {RowOf(id, b)}
                    /\ seq' = [seq EXCEPT !.transactions = id]
                    /\ assigned' = assigned \cup {id}
                    /\ post' = [pc |-> "inserted", body |-> b, lastID |-> id]
                    /\ Fits(transactions', inventory)
                    /\ stats' = Observe(transactions', inventory)
                    /\ out' = NoResponse
        /\ UNCHANGED <<inventory, categories, category_sales, put, invput,
                       series, clock>>

\* lines 211-212: the read-back by lastID and the response
PostReadBack ==
    /\ post.pc = "inserted"
    /\ out' = [op |-> "post", status |-> 200, success |-> TRUE,
               req |-> post.body, data |-> ById(transactions, post.lastID)]
    /\ post' = Idle
    /\ UNCHANGED <<transactions, seq, assigned, inventory, categories,
                   category_sales, put, invput, stats, series, clock>>

(***************************************************************************)
(* PUT /api/transactions/:id                                               *)
(***************************************************************************)
\* lines 222-226
PutReject(B) ==
    \E id \in 1..(MaxId + 1), b \in B :
        /\ put.pc = "idle"
        /\ MissingRequired(b)
        /\ out' = BadRequest("put", b) @@ [id |-> id]
        /\ UNCHANGED <<transactions, seq, assigned, inventory, categories,
                       category_sales, post, put, invput, stats, series, clock>>

\* REPLACE INTO transactions(id, ...): an upsert, which creates a missing row
UpsertById(rows, id, b) == {r \in rows : r.id # id} \cup {RowOf(id, b)}

\* UPDATE transactions SET date=?,reference=?,type=?,account=?,debit=?,credit=?
\* WHERE id=?
UpdateById(rows, id, b) ==
    {r \in rows : r.id # id} \cup {RowOf(r.id, b) : r \in ById(rows, id)}

\* lines 222-228: the UPDATE replaces every column but id of the row with :id
PutUpdate(B) ==
    \E id \in 1..(MaxId + 1), b \in B :
        /\ put.pc = "idle"
        /\ Accepting
        /\ ~MissingRequired(b)
        /\ LET hit == ById(transactions, id)
           IN  IF hit # {} /\ ViolatesNotNull(b)
               THEN /\ out' = ServerError("put", b) @@ [id |-> id]
                    /\ UNCHANGED <<transactions, put, stats>>
               ELSE /\ transactions' = UpdateById(transactions, id, b)
                    /\ put' = [pc |-> "updated", id |-> id, body |-> b,
                               changes |-> Cardinality(hit)]
                    /\ Fits(transactions', inventory)
                    /\ stats' = Observe(transactions', inventory)
                    /\ out' = NoResponse
        /\ UNCHANGED <<seq, assigned, inventory, categories, category_sales,
                       post, invput, series, clock>>

\* lines 229-230
PutReadBack ==
    /\ put.pc = "updated"
    /\ out' = [op |-> "put", status |-> 200, success |-> TRUE, id |-> put.id,
               req |-> put.body, changes |-> put.changes,
               data |-> ById(transactions, put.id)]
    /\ put' = Idle
    /\ UNCHANGED <<transactions, seq, assigned, inventory, categories,
                   category_sales, post, invput, stats, series, clock>>

(***************************************************************************)
(* DELETE /api/transactions/:id                                            *)
(***************************************************************************)
\* lines 240-242
Delete ==
    \E id \in 1..(MaxId + 1) :
        LET hit == ById(transactions, id)
        IN  /\ transactions' = transactions \ hit
            /\ Fits(transactions', inventory)
            /\ stats' = Observe(transactions', inventory)
            /\ out' = [op |-> "delete", status |-> 200, success |-> TRUE,
                       id |-> id, changes |-> Cardinality(hit)]
            /\ UNCHANGED <<seq, assigned, inventory, categories,
                           category_sales, post, put, invput, series, clock>>

(***************************************************************************)
(* GET /api/transactions                                                   *)
(***************************************************************************)
DefaultLimit == 100
DefaultOffset == 0

\* ORDER BY id DESC alone
ListBeforeByIdOnly(r, s) == r.id > s.id

\* ORDER BY date DESC, id DESC: r comes before s
ListBefore(r, s) ==
    \/ StrLess(s.date, r.date)
    \/ r.date = s.date /\ r.id > s.id

RECURSIVE Ordered(_)
Ordered(rows) ==
    IF rows = {} THEN <<>>
    ELSE LET first == CHOOSE r \in rows :
                          \A s \in rows \ {r} : ListBefore(r, s)
         IN  <<first>> \o Ordered(rows \ {first})

\* LIMIT l OFFSET o (a negative limit is no limit, a negative offset is 0)
Page(rowseq, l, o) ==
    LET from == Max(o, 0) + 1
        to   == IF l < 0 THEN Len(rowseq) ELSE Min(Len(rowseq), Max(o, 0) + l)
    IN  IF from > to THEN <<>> ELSE SubSeq(rowseq, from, to)

\* lines 183-190: the WHERE clause built from type and q
Selected(rows, type, q) ==
    {r \in rows :
        /\ type = "" \/ r.type = type
        /\ q = "" \/ Like(r.reference, q) \/ Like(r.account, q) \/ Like(r.date, q)}

\* History for the list: the response to a create that the step before sent.
AnsweredCreate == IF out.op = "post" THEN out ELSE NoResponse

\* lines 176-195
List(Q) ==
    \E query \in Q :
        LET q      == QueryOr(query, "q", "")
            type   == QueryOr(query, "type", "")
            limit  == IF Has(query, "limit") /\ query.limit # ""
                      THEN ParseInt(query.limit) ELSE DefaultLimit
            offset == IF Has(query, "offset") /\ query.offset # ""
                      THEN ParseInt(query.offset) ELSE DefaultOffset
        IN  /\ out' = [op |-> "list", status |-> 200, success |-> TRUE,
                       query |-> query, limit |-> limit, offset |-> offset,
                       previous |-> AnsweredCreate,
                       data |-> Page(Ordered(Selected(transactions, type, q)),
                                     limit, offset)]
            /\ UNCHANGED <<transactions, seq, assigned, inventory, categories,
                           category_sales, post, put, invput, stats, series,
                           clock>>

(***************************************************************************)
(* PUT /api/inventory/:id                                                  *)
(***************************************************************************)
MaxItems == 1   \* inventory items seeded before the server starts

\* a parameter: the body's value, NULL for undefined
Bind(b, k) == IF Has(b, k) THEN b[k] ELSE Null

\* lines 289-292: stock, reorder_level and status are overwritten
InvUpdate(B) ==
    \E id \in 1..(MaxItems + 1), b \in B :
        /\ invput.pc = "idle"
        /\ Accepting
        /\ LET hit == ById(inventory, id)
           IN  /\ inventory' = (inventory \ hit) \cup
                      {[r EXCEPT !.stock = Bind(b, "stock"),
                                 !.reorder_level = Bind(b, "reorder_level"),
                                 !.status = Bind(b, "status")] : r \in hit}
               /\ invput' = [pc |-> "updated", id |-> id,
                             changes |-> Cardinality(hit)]
        /\ Fits(transactions, inventory')
        /\ stats' = Observe(transactions, inventory')
        /\ out' = NoResponse
        /\ UNCHANGED <<transactions, seq, assigned, categories, category_sales,
                       post, put, series, clock>>

\* lines 293-294
InvReadBack ==
    /\ invput.pc = "updated"
    /\ out' = [op |-> "invput", status |-> 200, success |-> TRUE,
               id |-> invput.id, changes |-> invput.changes,
               data |-> ById(inventory, invput.id)]
    /\ invput' = Idle
    /\ UNCHANGED <<transactions, seq, assigned, inventory, categories,
                   category_sales, post, put, stats, series, clock>>

(***************************************************************************)
(* GET /api/stats                                                          *)
(***************************************************************************)
\* line 86: the request arrives and the handler starts
StatsArrive ==
    /\ stats.pc = "idle"
    /\ Accepting
    /\ stats' = [pc |-> "revenue", during |-> {Totals(transactions, inventory)}]
    /\ out' = NoResponse
    /\ UNCHANGED <<transactions, seq, assigned, inventory, categories,
                   category_sales, post, put, invput, series, clock>>

\* line 89
StatsRevenue ==
    /\ stats.pc = "revenue"
    /\ stats' = [pc |-> "expenses", during |-> stats.during,
                 revRow |-> [revenue |-> SumDebitOfType(transactions, "invoice")]]
    /\ out' = NoResponse
    /\ UNCHANGED <<transactions, seq, assigned, inventory, categories,
                   category_sales, post, put, invput, series, clock>>

\* line 90
StatsExpenses ==
    /\ stats.pc = "expenses"
    /\ stats' = [pc |-> "stock", during |-> stats.during,
                 revRow |-> stats.revRow,
                 expRow |-> [expenses |-> SumDebitOfType(transactions, "expense")]]
    /\ out' = NoResponse
    /\ UNCHANGED <<transactions, seq, assigned, inventory, categories,
                   category_sales, post, put, invput, series, clock>>

\* lines 91-100
StatsStock ==
    /\ stats.pc = "stock"
    /\ LET stockRow == [total_stock |-> SumStock(inventory)]
       IN  out' = [op |-> "stats", status |-> 200, success |-> TRUE,
                   during |-> stats.during,
                   data |-> [revenue  |-> Or0(stats.revRow.revenue),
                             expenses |-> Or0(stats.expRow.expenses),
                             profit   |-> Or0(stats.revRow.revenue)
                                            - Or0(stats.expRow.expenses),
                             stock    |-> Or0(stockRow.total_stock)]]
    /\ stats' = Idle
    /\ UNCHANGED <<transactions, seq, assigned, inventory, categories,
                   category_sales, post, put, invput, series, clock>>

(***************************************************************************)
(* GET /api/revenue-series                                                 *)
(***************************************************************************)
DefaultMonths == "6"

DigitStr(d) == SubSeq("0123456789", d + 1, d + 1)

Pad2(n) == DigitStr(n \div 10) \o DigitStr(n % 10)

Pad4(n) == Pad2(n \div 100) \o Pad2(n % 100)

\* A calendar month as the number of months since year 0: what
\* new Date(year, month - i, 1) normalises year and month to.
MonthIndex(year, month) == year * 12 + month

\* "YYYY-MM" of a month index
MonthKey(idx) == Pad4(idx \div 12) \o "-" \o Pad2((idx % 12) + 1)

\* d.toISOString().slice(0,7) of the local midnight that starts month idx.
\* toISOString prints UTC: on a host tz hours ahead of UTC that midnight is
\* still the last day of the month before.
IsoMonthOfLocalFirst(idx, tz) ==
    IF tz > 0 THEN MonthKey(idx - 1) ELSE MonthKey(idx)

\* lines 112-119
MonthBuckets(monthsCount, clk) ==
    [k \in 1..Max(monthsCount, 0) |->
        IsoMonthOfLocalFirst(
            MonthIndex(clk.year, clk.month) - (monthsCount - k), clk.tz)]

\* months[0] + '-01'
LowerBound(months) ==
    (IF Len(months) = 0 THEN "undefined" ELSE months[1]) \o "-01"

\* SELECT substr(date,1,7) as month, IFNULL(SUM(debit),0) as amount
\* FROM transactions WHERE type = t AND date >= lower GROUP BY month
MonthlyRows(rows, t, lower) ==
    LET sel == {r \in rows : r.type = t /\ StrGeq(r.date, lower)}
    IN  {[month  |-> m,
          amount |-> IfNull(SumCol({r \in sel : Substr1(r.date, 7) = m},
                                   "debit"), Num(0))]
            : m \in {Substr1(r.date, 7) : r \in sel}}

\* Math.round of h/Scale: the nearest whole number, halves upwards
MathRound(h) == (2 * h + Scale) \div (2 * Scale)

\* months.map(m => map[m] ? Math.round(map[m]) : 0)
Rounded(months, monthly) ==
    [k \in DOMAIN months |->
        LET found == {r \in monthly : r.month = months[k]}
        IN  IF found = {} THEN 0
            ELSE LET amount == (CHOOSE r \in found : TRUE).amount
                 IN  IF Val(amount) = 0 THEN 0 ELSE MathRound(Val(amount))]

MonthShort ==
    <<"Jan", "Feb", "Mar", "Apr", "May", "Jun",
      "Jul", "Aug", "Sep", "Oct", "Nov", "Dec">>

\* lines 144-146
Labels(months) ==
    [k \in DOMAIN months |-> MonthShort[ParseInt(SubSeq(months[k], 6, 7))]]

\* lines 112-128: the buckets and the revenue query
SeriesRevenue(Q) ==
    \E query \in Q :
        /\ series.pc = "idle"
        /\ Accepting
        /\ LET monthsCount == ParseInt(QueryOr(query, "months", DefaultMonths))
               months == MonthBuckets(monthsCount, clock)
           IN  series' = [pc |-> "expenses", monthsCount |-> monthsCount,
                          months |-> months,
                          revenueRows |-> MonthlyRows(transactions, "invoice",
                                                      LowerBound(months))]
        /\ out' = NoResponse
        /\ UNCHANGED <<transactions, seq, assigned, inventory, categories,
                       category_sales, post, put, invput, stats, clock>>

\* lines 129-148: the expenses query, the two series and the labels
SeriesExpenses ==
    /\ series.pc = "expenses"
    /\ LET expenseRows == MonthlyRows(transactions, "expense",
                                      LowerBound(series.months))
       IN  out' = [op |-> "series", status |-> 200, success |-> TRUE,
                   monthsCount |-> series.monthsCount,
                   data |-> [labels   |-> Labels(series.months),
                             months   |-> series.months,
                             revenue  |-> Rounded(series.months,
                                                  series.revenueRows),
                             expenses |-> Rounded(series.months, expenseRows)]]
    /\ series' = Idle
    /\ UNCHANGED <<transactions, seq, assigned, inventory, categories,
                   category_sales, post, put, invput, stats, clock>>

(***************************************************************************)
(* categories and category_sales.  No endpoint writes them: their rows are *)
(* seeded by statements of the shapes below, under the constraints of the  *)
(* schema that the connection enforces.                                    *)
(***************************************************************************)
MaxCategories == 2  \* INSERTs into categories per behaviour
MaxSales == 2       \* INSERTs into category_sales per behaviour

\* PRAGMA foreign_keys of the connection `db`.  Line 17 turns it on for the
\* connection initDb opens and closes (lines 14, 48); the pragma is a setting
\* of one connection, and `db` is opened afterwards with SQLite's default.
ForeignKeys == FALSE

\* INSERT INTO categories(name): name is UNIQUE
InsertCategory ==
    \E name \in {"Food", "Books"} :
        /\ seq.categories < MaxCategories
        /\ name \notin {c.name : c \in categories}
        /\ LET id == NextRowid(categories, seq.categories)
           IN  /\ categories' = categories \cup {[id |-> id, name |-> name]}
               /\ seq' = [seq EXCEPT !.categories = id]
        /\ out' = NoResponse
        /\ UNCHANGED <<transactions, assigned, inventory, category_sales, post,
                       put, invput, stats, series, clock>>

\* INSERT INTO category_sales(category_id, month, amount):
\* FOREIGN KEY(category_id) REFERENCES categories(id)
InsertCategorySale ==
    \E cid \in 1..MaxCategories, month \in {"2026-01", "2026-02"},
       amount \in {Num(3), Num(4)} :
        /\ seq.category_sales < MaxSales
        /\ ForeignKeys => cid \in Ids(categories)
        /\ LET id == NextRowid(category_sales, seq.category_sales)
           IN  /\ category_sales' = category_sales \cup
                      {[id |-> id, category_id |-> cid, month |-> month,
                        amount |-> amount]}
               /\ seq' = [seq EXCEPT !.category_sales = id]
        /\ out' = NoResponse
        /\ UNCHANGED <<transactions, assigned, inventory, categories, post,
                       put, invput, stats, series, clock>>

\* DELETE FROM categories WHERE id = ?: ON DELETE CASCADE
DeleteCategory ==
    \E id \in Ids(categories) :
        /\ categories' = {c \in categories : c.id # id}
        /\ category_sales' =
               IF ForeignKeys
               THEN {cs \in category_sales : cs.category_id # id}
               ELSE category_sales
        /\ out' = NoResponse
        /\ UNCHANGED <<transactions, seq, assigned, inventory, post, put,
                       invput, stats, series, clock>>

(***************************************************************************)
(* GET /api/category-sales                                                 *)
(***************************************************************************)
\* (new Date()).toISOString().slice(0,7)
CurrentIsoMonth(clk) == MonthKey(MonthIndex(clk.year, clk.month))

\* SELECT c.name, IFNULL(SUM(cs.amount),0) as total FROM categories c
\* LEFT JOIN category_sales cs ON cs.category_id = c.id AND cs.month = ?
\* GROUP BY c.id
CategoryTotals(cats, sales, month) ==
    {[name  |-> c.name,
      total |-> IfNull(SumCol({cs \in sales : cs.category_id = c.id
                                                /\ cs.month = month},
                              "amount"), Num(0))] : c \in cats}

\* ORDER BY total DESC: every order of the rows that has no smaller total
\* before a larger one (rows of equal total come in either order)
OrderedByTotal(rows) ==
    {sq \in [1..Cardinality(rows) -> rows] :
        /\ \A r \in rows : \E i \in DOMAIN sq : sq[i] = r
        /\ \A i, j \in DOMAIN sq : i < j => Val(sq[i].total) >= Val(sq[j].total)}

\* lines 156-166
CategorySales(Q) ==
    \E query \in Q :
        LET month == QueryOr(query, "month", CurrentIsoMonth(clock))
        IN  /\ \E rows \in OrderedByTotal(
                       CategoryTotals(categories, category_sales, month)) :
                   out' = [op |-> "category-sales", status |-> 200,
                           success |-> TRUE, month |-> month, data |-> rows]
            /\ UNCHANGED <<transactions, seq, assigned, inventory, categories,
                           category_sales, post, put, invput, stats, series,
                           clock>>

(***************************************************************************)
(* The state after construction: initDb has created the four tables, the   *)
(* server holds its connection and no request is in flight.                *)
(***************************************************************************)
WholeNum(n) == Num(n * Scale)

HostClock == [year |-> 2026, month |-> 1, tz |-> 0]

InitWith(inv, cats, sales, clk) ==
    /\ transactions = {}
    /\ seq = [t \in {"transactions", "categories", "category_sales"} |-> 0]
    /\ assigned = {}
    /\ inventory = inv
    /\ categories = cats
    /\ category_sales = sales
    /\ post = Idle
    /\ put = Idle
    /\ invput = Idle
    /\ stats = Idle
    /\ series = Idle
    /\ clock = clk
    /\ out = NoResponse

(***************************************************************************)
(* The transaction endpoints under concurrent requests.                    *)
(***************************************************************************)
TxDates == {"2026-01-15", "2026-02-03"}

FullBody(d) ==
    [date |-> d, reference |-> "INV-1", type |-> "invoice", account |-> "cash",
     debit |-> Num(3), credit |-> Num(0)]

\* debit and credit given, and both left out
ValidTxBodies ==
    {FullBody(d) : d \in TxDates}
        \cup {Drop(Drop(FullBody("2026-01-15"), "debit"), "credit")}

\* one incomplete body per required field, missing or empty
InvalidTxBodies ==
    {Drop(FullBody("2026-01-15"), k) : k \in {"date", "account"}}
        \cup {[FullBody("2026-01-15") EXCEPT ![k] = ""] :
                  k \in {"reference", "type"}}

TxBodies == ValidTxBodies \cup InvalidTxBodies

EmptyQuery == [k \in {} |-> ""]

Queries ==
    {EmptyQuery, [limit |-> "1"],
     [q |-> "2026-02", type |-> "invoice", offset |-> "1"]}

Init == InitWith({}, {}, {}, HostClock)

Next ==
    \/ PostReject(TxBodies)
    \/ PostInsert(TxBodies)
    \/ PostReadBack
    \/ PutReject(TxBodies)
    \/ PutUpdate(TxBodies)
    \/ PutReadBack
    \/ Delete
    \/ List(Queries)

Spec == Init /\ [][Next]_vars

(***************************************************************************)
(* GET /api/stats while other requests write the ledger and the inventory. *)
(***************************************************************************)
StatsBody(t, d) ==
    [date |-> "2026-02-03", reference |-> "INV-1", type |-> t,
     account |-> "cash", debit |-> d]

StatsBodies ==
    {StatsBody(t, Num(3)) : t \in {"invoice", "expense", "payment"}}
        \cup {StatsBody("invoice", Null)}

Item(id, stock) ==
    [id |-> id, sku |-> "SKU", name |-> "Widget", stock |-> stock,
     reorder_level |-> WholeNum(0), status |-> <<"ok">>]

InventorySeeds ==
    {inv \in SUBSET {Item(id, WholeNum(2)) : id \in 1..MaxItems} : TRUE}

InvBodies ==
    {[stock |-> WholeNum(5), reorder_level |-> WholeNum(1), status |-> <<"low">>],
     EmptyQuery}

InitStats == \E inv \in InventorySeeds : InitWith(inv, {}, {}, HostClock)

NextStats ==
    \/ PostInsert(StatsBodies)
    \/ PostReadBack
    \/ PutUpdate(StatsBodies)
    \/ PutReadBack
    \/ Delete
    \/ InvUpdate(InvBodies)
    \/ InvReadBack
    \/ StatsArrive
    \/ StatsRevenue
    \/ StatsExpenses
    \/ StatsStock

SpecStats == InitStats /\ [][NextStats]_vars

(***************************************************************************)
(* GET /api/revenue-series on hosts in different time zones, while other   *)
(* requests write the ledger.                                              *)
(***************************************************************************)
SeriesBody(t, date, d) ==
    [date |-> date, reference |-> "INV-1", type |-> t, account |-> "cash",
     debit |-> d]

SeriesBodies ==
    {SeriesBody("invoice", "2026-01-15", Num(3)),
     SeriesBody("invoice", "2026-01-15", Num(0 - 3)),
     SeriesBody("expense", "2025-12-31", Num(5)),
     SeriesBody("payment", "2025-11-30", Num(3))}

SeriesQueries ==
    {EmptyQuery, [months |-> "1"], [months |-> "2"], [months |-> "0"],
     [months |-> "-1"]}

\* mid-January 2026, on hosts behind, at and ahead of UTC
HostClocks == {[year |-> 2026, month |-> 0, tz |-> z] : z \in {0 - 5, 0, 1}}

InitSeries == \E clk \in HostClocks : InitWith({}, {}, {}, clk)

NextSeries ==
    \/ PostInsert(SeriesBodies)
    \/ PostReadBack
    \/ PutUpdate(SeriesBodies)
    \/ PutReadBack
    \/ Delete
    \/ SeriesRevenue(SeriesQueries)
    \/ SeriesExpenses

SpecSeries == InitSeries /\ [][NextSeries]_vars

(***************************************************************************)
(* GET /api/category-sales over seeded categories and sales.               *)
(***************************************************************************)
CategoryQueries == {EmptyQuery, [month |-> "2026-01"]}

InitCategories == InitWith({}, {}, {}, HostClock)

NextCategories ==
    \/ InsertCategory
    \/ InsertCategorySale
    \/ DeleteCategory
    \/ CategorySales(CategoryQueries)

SpecCategories == InitCategories /\ [][NextCategories]_vars

(***************************************************************************)
(* What the claims speak of.                                               *)
(***************************************************************************)
\* a required field is missing or empty
Incomplete(b) ==
    \E k \in Required : IF k \in DOMAIN b THEN b[k] = "" ELSE TRUE

Submitted(b, k) == IF k \in DOMAIN b THEN b[k] ELSE Num(0)

\* row r carries every submitted field of body b
Matches(r, b) ==
    /\ \A k \in Required : IF k \in DOMAIN b THEN r[k] = b[k] ELSE FALSE
    /\ r.debit = Submitted(b, "debit")
    /\ r.credit = Submitted(b, "credit")

\* s is listed before r: a later date, or the same date and a larger id
SortsBefore(s, r) ==
    \/ StrLess(r.date, s.date)
    \/ s.date = r.date /\ s.id > r.id

Unfiltered(query) == ~("q" \in DOMAIN query) /\ ~("type" \in DOMAIN query)

Reported == [revenue  |-> out.data.revenue,
             expenses |-> out.data.expenses,
             stock    |-> out.data.stock]

(***************************************************************************)
(* C1. GET /api/stats over a store whose totals stay the same while the    *)
(* request is in flight reports revenue = the sum of debit of the invoices,*)
(* expenses = the sum of debit of the expenses, profit = revenue -         *)
(* expenses and stock = the sum of stock; all four are numbers, 0 for an   *)
(* empty store.                                                            *)
(***************************************************************************)
C1_StatsReportTotals ==
    out.op = "stats" =>
        /\ out.status = 200 /\ out.success
        /\ out.data.revenue \in Int /\ out.data.expenses \in Int
        /\ out.data.stock \in Int
        /\ out.data.profit = out.data.revenue - out.data.expenses
        /\ Cardinality(out.during) = 1 =>
               /\ Reported = Totals(transactions, inventory)
               /\ (transactions = {} /\ inventory = {}) =>
                      /\ out.data.revenue = 0 /\ out.data.expenses = 0
                      /\ out.data.profit = 0 /\ out.data.stock = 0

C1_Witness ==
    /\ out.op = "stats"
    /\ Cardinality(out.during) = 1
    /\ out.data.revenue > 0 /\ out.data.expenses > 0 /\ out.data.stock > 0

(***************************************************************************)
(* C10. The revenue, expenses and stock of one GET /api/stats response are *)
(* the totals of one store state that existed while the request was in     *)
(* flight.                                                                 *)
(***************************************************************************)
C10_StatsReportOneState ==
    out.op = "stats" => Reported \in out.during

(***************************************************************************)
(* C8. A POST /api/transactions answered with success returns the row it   *)
(* created: one row, whose fields are the submitted ones.                  *)
(***************************************************************************)
C8_PostReturnsCreatedRow ==
    (out.op = "post" /\ out.status = 200) =>
        /\ Cardinality(out.data) = 1
        /\ \A r \in out.data : Matches(r, out.req)

(***************************************************************************)
(* C5, as stated. A successful POST followed at once by an unfiltered GET  *)
(* /api/transactions with the default limit and offset: the list holds     *)
(* exactly one row that matches all submitted fields, and the id of that   *)
(* row is greater than every id assigned before.  (Stated for a POST that  *)
(* answered with the row it created.)                                      *)
(***************************************************************************)
AfterCreate ==
    /\ out.op = "list"
    /\ Unfiltered(out.query)
    /\ out.offset = 0
    /\ out.previous.op = "post"
    /\ out.previous.status = 200
    /\ out.previous.data # {}

C6_UnknownIdAlwaysSucceeds ==
    [][(out'.op \in {"put", "delete"} /\ out'.id \notin Ids(transactions)) =>
           /\ out'.status = 200
           /\ out'.success
           /\ out'.changes = 0
           /\ out'.op = "put" => out'.data = {}
           /\ transactions' = transactions]_vars

(***************************************************************************)
(* C6, amended. DELETE of an id that is not in the store answers success   *)
(* with changes 0. PUT of such an id answers 400 when a required field is  *)
(* missing or empty; otherwise its UPDATE changes nothing and it answers   *)
(* success with changes 0, with no data row unless a create assigned that  *)
(* id before the read-back. Neither changes a stored transaction.          *)
(***************************************************************************)
C6_UnknownIdChangesNothing ==
    [][/\ (out'.op = "delete" /\ out'.id \notin Ids(transactions)) =>
              /\ out'.status = 200 /\ out'.success /\ out'.changes = 0
              /\ transactions' = transactions
       /\ (put.pc = "idle" /\ put'.pc = "updated"
              /\ put'.id \notin Ids(transactions)) =>
              /\ put'.changes = 0
              /\ transactions' = transactions
       /\ (out'.op = "put" /\ put.pc = "updated") =>
              /\ out'.status = 200 /\ out'.success
              /\ ~Incomplete(out'.req)
              /\ out'.changes = put.changes
              /\ out'.id = put.id
              /\ out'.id \notin Ids(transactions) => out'.data = {}
              /\ transactions' = transactions
       /\ (out'.op = "put" /\ put.pc = "idle") =>
              /\ out'.status = 400 /\ ~out'.success
              /\ Incomplete(out'.req)
              /\ transactions' = transactions]_vars

C6_Witness ==
    /\ out.op = "put" /\ out.status = 200
    /\ out.changes = 0 /\ out.data = {}
    /\ transactions # {}

(***************************************************************************)
(* C7. A POST or PUT whose date, reference, type or account is missing or  *)
(* empty is answered with 400 and success false, sends no statement to the *)
(* store and leaves the transactions table as it was.                      *)
(***************************************************************************)
C7_IncompleteIsRejected ==
    [][/\ (out'.op \in {"post", "put"} /\ Incomplete(out'.req)) =>
              /\ out'.status = 400 /\ ~out'.success
              /\ transactions' = transactions /\ seq' = seq
              /\ post' = post /\ put' = put
       /\ post'.pc = "inserted" => ~Incomplete(post'.body)
       /\ put'.pc = "updated" => ~Incomplete(put'.body)]_vars

C7_Witness ==
    /\ out.op \in {"post", "put"}
    /\ out.status = 400
    /\ "account" \notin DOMAIN out.req
    /\ transactions # {}

(***************************************************************************)
(* C9. No two stored transactions share an id, an update leaves the id of  *)
(* the row it modifies (and every other row) as it is, and an INSERT never *)
(* hands out an id that was handed out before, deleted or not.             *)
(***************************************************************************)
C9_IdsUniqueImmutableFresh ==
    [][/\ \A r, s \in transactions' : r.id = s.id => r = s
       /\ (put.pc = "idle" /\ put'.pc = "updated") =>
              /\ Ids(transactions') = Ids(transactions)
              /\ \A r \in transactions : r.id # put'.id => r \in transactions'
       /\ \A i \in Ids(transactions') \ Ids(transactions) : i \notin assigned]_vars

\* an id was deleted and a later INSERT took the next one
C9_Witness ==
    /\ 1 \in assigned /\ 1 \notin Ids(transactions)
    /\ 2 \in Ids(transactions)

(***************************************************************************)
(* C2. GET /api/revenue-series with window size monthsCount returns        *)
(* labels, months, revenue and expenses of length monthsCount each, and    *)
(* months holds the monthsCount consecutive calendar months that end with  *)
(* the current one, oldest first.  (Stated for monthsCount >= 0.)          *)
(***************************************************************************)
C2_SeriesEndsAtCurrentMonth ==
    (out.op = "series" /\ out.monthsCount >= 0) =>
        LET n == out.monthsCount
            current == MonthIndex(clock.year, clock.month)
        IN  /\ Len(out.data.labels) = n /\ Len(out.data.months) = n
            /\ Len(out.data.revenue) = n /\ Len(out.data.expenses) = n
            /\ \A k \in 1..n : out.data.months[k] = MonthKey(current - (n - k))

(***************************************************************************)
(* C3. Every entry of the revenue and expenses arrays of GET               *)
(* /api/revenue-series is a non-negative integer, and every entry is 0     *)
(* when no stored invoice or expense falls in the window.                  *)
(***************************************************************************)
InWindow(r, months) ==
    /\ r.type \in {"invoice", "expense"}
    /\ \E k \in DOMAIN months : Substr1(r.date, 7) = months[k]

C3_SeriesEntriesNonNegative ==
    out.op = "series" =>
        /\ \A k \in DOMAIN out.data.revenue :
               out.data.revenue[k] \in Nat /\ out.data.expenses[k] \in Nat
        /\ (\A r \in transactions : ~InWindow(r, out.data.months)) =>
               \A k \in DOMAIN out.data.revenue :
                   out.data.revenue[k] = 0 /\ out.data.expenses[k] = 0

(***************************************************************************)
(* C4. GET /api/category-sales returns exactly one row per category, and   *)
(* the returned totals add up to the sum of amount over all category_sales *)
(* rows of the month asked for.                                            *)
(***************************************************************************)
RECURSIVE SumTotals(_)
SumTotals(rowseq) ==
    IF Len(rowseq) = 0 THEN 0
    ELSE Val(Head(rowseq).total) + SumTotals(Tail(rowseq))

C4_CategoryTotalsAddUp ==
    out.op = "category-sales" =>
        /\ Len(out.data) = Cardinality(categories)
        /\ \A c \in categories : \E i \in DOMAIN out.data : out.data[i].name = c.name
        /\ SumTotals(out.data) =
               Total({cs \in category_sales : cs.month = out.month}, "amount")
====
